---- MODULE Spec2Model ----
(***************************************************************************)
(* Model of sim/car.py: the kinematic car (Car), the obstacle generator    *)
(* (generate_obstacles), the collision and goal predicates and the frame   *)
(* loop of main().                                                         *)
(*                                                                         *)
(* Numbers.  The program computes in IEEE doubles; the model computes in   *)
(* decimal fixed point with three fractional digits: the integer q stands  *)
(* for q/1000, so lengths are in mm, speeds in mm/s, angles in mrad, times *)
(* in ms and the inputs -1..1 in thousandths.  Every product and quotient  *)
(* is rounded to the nearest representable value, ties to even, in the     *)
(* order the source evaluates its operands, as a double operation rounds   *)
(* at its own precision.  Squared distances are kept exactly (mm^2).       *)
(***************************************************************************)
EXTENDS Integers, Sequences, FiniteSets

VARIABLES
    car,        \* the Car object: [x, y, theta, v, steer, width, length, history]
    obstacles,  \* main: the obstacle field, a sequence of <<x, y, r>>
    playing,    \* main: loop flag
    win,        \* main: goal reached
    collision,  \* main: collision detected
    key_state,  \* main: [up, down, left, right -> BOOLEAN]
    dt,         \* main: the frame's measured time step (ms)
    accel,      \* main: the frame's accel input (thousandths)
    steer,      \* main: the frame's steer input (thousandths)
    event,      \* main: the event being handled, [type, key]
    pc,         \* main: position in the loop body: "tick", "events", "done"
    frames,     \* number of loop iterations started
    nevents,    \* number of events handled
    obs,        \* generate_obstacles: accepted obstacles
    attempts,   \* generate_obstacles: attempts made
    gen_pc,     \* generate_obstacles: "loop" or "returned"
    calls       \* number of calls made on a Car driven directly

vars == <<car, obstacles, playing, win, collision, key_state, dt, accel, steer,
          event, pc, frames, nevents, obs, attempts, gen_pc, calls>>

(***************************************************************************)
(* Bounds of the model.                                                    *)
(***************************************************************************)
MaxFrames == 4
MaxEvents == 2
MaxCalls == 2
\* generate_obstacles gives up after max_attempts draws.  The source sets
\* 1000; the loop reads the value only in its exit test, and the model scales
\* it down so that every order of draws is explored.
max_attempts == 8

(***************************************************************************)
(* Program parameters (car.py lines 23-67), in thousandths.                *)
(***************************************************************************)
WORLD_SIZE == 4000
FPS == 60
MAX_SPEED == 2500
ACCEL == 4000
BRAKE == 6000
STEER_SPEED == 2500
DRAG == 800
NUM_OBSTACLES == 6
OBSTACLE_RADIUS_MIN == 40
OBSTACLE_RADIUS_MAX == 120
GOAL_POS == <<1900, 1000>>
GOAL_RADIUS == 60
START_POS == <<50, 1000>>
OBSTACLE_TOLERANCE == 30
HISTORY_CAP == 5000

(***************************************************************************)
(* Arithmetic.                                                             *)
(***************************************************************************)
Abs(a) == IF a < 0 THEN -a ELSE a
Min(a, b) == IF a < b THEN a ELSE b
Max(a, b) == IF a > b THEN a ELSE b

\* n/d rounded to the nearest integer, ties to even (d > 0).
RoundDiv(n, d) ==
    LET q == n \div d
        r == n % d
    IN  IF 2 * r > d \/ (2 * r = d /\ q % 2 = 1) THEN q + 1 ELSE q

\* a * b and a / b on thousandths.
Mul(a, b) == RoundDiv(a * b, 1000)
Div(a, b) == RoundDiv(a * 1000, b)

\* math.pi, 2*math.pi and math.pi/2 in mrad.
PI == 3142
TWO_PI == 6283
HALF_PI == 1571

\* cos on [0, pi/2]: the Taylor polynomial to the eighth power.
CosQuadrant(u) ==
    LET u2 == Mul(u, u)
        u4 == Mul(u2, u2)
        u6 == Mul(u4, u2)
        u8 == Mul(u4, u4)
    IN  RoundDiv(40320 * 1000 - 20160 * u2 + 1680 * u4 - 56 * u6 + u8, 40320)

\* math.cos and math.sin of an angle in mrad, in thousandths.
cos(t) ==
    LET m == t % TWO_PI
    IN  IF m <= HALF_PI THEN CosQuadrant(m)
        ELSE IF m <= PI THEN -CosQuadrant(PI - m)
        ELSE IF m <= PI + HALF_PI THEN -CosQuadrant(m - PI)
        ELSE CosQuadrant(TWO_PI - m)

sin(t) == cos(t - HALF_PI)

(***************************************************************************)
(* class Car.                                                              *)
(***************************************************************************)
\* Car.__init__
Car_init(x, y, theta) ==
    [x |-> x, y |-> y, theta |-> theta, v |-> 0, steer |-> 0,
     width |-> 120, length |-> 200, history |-> <<>>]

\* Car.reset moving the car back without stopping it.
Car_reset_keepsSpeed == [Car_init(50, 1000, 0) EXCEPT !.v = car.v]

\* Car.reset, with its default arguments x=0.05, y=1.0, theta=0.0
Car_reset == Car_init(50, 1000, 0)

\* The speed after lines 88-91: the accel input acts with ACCEL forwards and
\* with BRAKE otherwise.
StepAccel(v, accel_input, d) ==
    IF accel_input > 0
    THEN v + Mul(Mul(accel_input, ACCEL), d)
    ELSE v + Mul(Mul(accel_input, BRAKE), d)

\* The drag term of line 94: self.v * DRAG * dt.
DragTerm(v, d) == Mul(Mul(v, DRAG), d)

\* StepDrag with the drag term added.
StepDrag_added(v, d) == v + DragTerm(v, d)

\* Line 94: self.v -= self.v * DRAG * dt
StepDrag(v, d) == v - DragTerm(v, d)

\* ClampSpeed with the factor 0.5 of the lower clamp forgotten.
ClampSpeed_fullReverse(v) ==
    LET v1 == IF v > MAX_SPEED THEN MAX_SPEED ELSE v
    IN  IF v1 < -MAX_SPEED THEN -MAX_SPEED ELSE v1

\* Lines 96-97: the two clamps, in the source's order.
ClampSpeed(v) ==
    LET v1 == IF v > MAX_SPEED THEN MAX_SPEED ELSE v
    IN  IF v1 < Mul(-MAX_SPEED, 500) THEN Mul(-MAX_SPEED, 500) ELSE v1

\* Lines 109-110: min(max(p, 0.0), WORLD_SIZE)
ClampPos(p) == Min(Max(p, 0), WORLD_SIZE)

\* Lines 111-113: append, and evict the oldest entry above the capacity.
PushHistory(h, p) ==
    LET h1 == Append(h, p)
    IN  IF Len(h1) > HISTORY_CAP THEN Tail(h1) ELSE h1

\* Car.step
Car_step(c, accel_input, steer_input, d) ==
    LET v1 == ClampSpeed(StepDrag(StepAccel(c.v, accel_input, d), d))
        angular_vel == Mul(Mul(steer_input, STEER_SPEED),
                           400 + Div(Abs(v1), MAX_SPEED))
        theta1 == c.theta + Mul(angular_vel, d)
        dx == Mul(Mul(v1, cos(theta1)), d)
        dy == Mul(Mul(v1, sin(theta1)), d)
        x1 == ClampPos(c.x + dx)
        y1 == ClampPos(c.y + dy)
    IN  [c EXCEPT !.v = v1, !.theta = theta1, !.x = x1, !.y = y1,
                  !.history = PushHistory(c.history, <<x1, y1>>)]

\* downgrade_v_to_0: n times v -= v * DRAG
RECURSIVE downgrade_v_to_0(_, _)
downgrade_v_to_0(v, n) ==
    IF n <= 0 THEN v ELSE downgrade_v_to_0(v - Mul(v, DRAG), n - 1)

(***************************************************************************)
(* Collision and goal predicates.                                          *)
(***************************************************************************)
Dist2(x1, y1, x2, y2) == (x1 - x2) * (x1 - x2) + (y1 - y2) * (y1 - y2)

\* max(car.width, car.length) * 0.6
CarRadius(c) == Mul(Max(c.width, c.length), 600)

\* The wall test with strict comparisons.
HitsWall_strict(c) ==
    c.x < 0 \/ c.x > WORLD_SIZE \/ c.y < 0 \/ c.y > WORLD_SIZE

\* The wall test of line 152.
HitsWall(c) ==
    c.x <= 0 \/ c.x >= WORLD_SIZE \/ c.y <= 0 \/ c.y >= WORLD_SIZE

\* The obstacle loop of lines 147-150.
HitsObstacle(c, field) ==
    \E i \in 1..Len(field) :
        Dist2(c.x, c.y, field[i][1], field[i][2])
            <= (field[i][3] + CarRadius(c)) * (field[i][3] + CarRadius(c))

check_collision(c, field) == HitsObstacle(c, field) \/ HitsWall(c)

reached_goal(c) ==
    Dist2(c.x, c.y, GOAL_POS[1], GOAL_POS[2]) <= GOAL_RADIUS * GOAL_RADIUS

(***************************************************************************)
(* generate_obstacles.                                                     *)
(***************************************************************************)
\* math.hypot(dx, dy) < c, for c >= 0, compared on the squares.
HypotLess(dx, dy, c) == dx * dx + dy * dy < c * c

\* Lines 320-324: within r + GOAL_RADIUS + OBSTACLE_TOLERANCE of the start
\* or of the goal.
NearStartOrGoal(d) ==
    \E p \in {START_POS, GOAL_POS} :
        HypotLess(d[1] - p[1], d[2] - p[2],
                  d[3] + GOAL_RADIUS + OBSTACLE_TOLERANCE)

\* Lines 327-333: in front of the start.  For dx > 0 the angle atan2(dy, dx)
\* lies in (-pi/2, pi/2), the normalisation of line 331 leaves it as it is,
\* and |angle| < 30 degrees is |dy|/dx < tan(30 degrees), i.e. 3 dy^2 < dx^2.
InFrontOfStart(d) ==
    LET dx == d[1] - START_POS[1]
        dy == d[2] - START_POS[2]
    IN  dx > 0 /\ 3 * dy * dy < dx * dx /\ HypotLess(dx, dy, 400)

\* Lines 338-340: a centre strictly inside the ring around the goal.
InRing(px, py) ==
    LET ring_min == GOAL_RADIUS + 30
        ring_max == GOAL_RADIUS + 130
        d2 == Dist2(px, py, GOAL_POS[1], GOAL_POS[2])
    IN  ring_min * ring_min < d2 /\ d2 < ring_max * ring_max

\* Lines 336-342: the ring already holds three obstacles.
RingFull(field, d) ==
    LET count_in_ring ==
            Cardinality({i \in 1..Len(field) : InRing(field[i][1], field[i][2])})
    IN  InRing(d[1], d[2]) /\ count_in_ring >= 3

\* The overlap test with the accepted obstacle's radius left out.
Overlaps_oneRadius(field, d) ==
    \E i \in 1..Len(field) :
        HypotLess(d[1] - field[i][1], d[2] - field[i][2],
                  d[3] + OBSTACLE_TOLERANCE)

\* Lines 345-348: overlaps an accepted obstacle.
Overlaps(field, d) ==
    \E i \in 1..Len(field) :
        HypotLess(d[1] - field[i][1], d[2] - field[i][2],
                  d[3] + field[i][3] + OBSTACLE_TOLERANCE)

\* The flag too_close at line 349.
too_close(field, d) ==
    \/ NearStartOrGoal(d)
    \/ InFrontOfStart(d)
    \/ RingFull(field, d)
    \/ Overlaps(field, d)

\* One iteration of the loop (lines 315-351) on the draw d = <<x, y, r>>.
GenBody(field, d) == IF too_close(field, d) THEN field ELSE Append(field, d)

\* The loop condition of line 314.
GenContinue(field, n) == Len(field) < NUM_OBSTACLES /\ n < max_attempts

\* The ranges of the three rng.uniform calls (lines 315-317).
InDrawRange(d) ==
    /\ 120 <= d[1] /\ d[1] <= WORLD_SIZE - 120
    /\ 120 <= d[2] /\ d[2] <= WORLD_SIZE - 120
    /\ OBSTACLE_RADIUS_MIN <= d[3] /\ d[3] <= OBSTACLE_RADIUS_MAX

\* The draws the model lets the generator make: four places in the ring
\* around the goal, three in the open, and one each too near the start, too
\* near the goal, in front of the start, over another one, and beside the
\* start.
Draws ==
    {d \in {<<2060, 1000, 40>>, <<1900, 1160, 40>>, <<1740, 1000, 40>>,
            <<1900, 840, 40>>, <<3000, 3000, 120>>, <<3000, 2000, 80>>,
            <<1000, 3000, 100>>, <<130, 1000, 40>>, <<1900, 1100, 40>>,
            <<350, 1000, 40>>, <<3000, 3100, 40>>, <<120, 1120, 40>>} :
        InDrawRange(d)}

\* random.Random(seed): the draws <<x, y, r>> Python's generator makes for
\* the seed, rounded to mm.  Seed 2 is the seed of main's first field.
Stream(seed) ==
    IF seed = 2
    THEN << <<3715, 3684, 45>>, <<439, 3261, 99>>, <<2638, 1279, 88>>,
            <<2402, 2305, 53>>, <<1739, 1600, 98>>, <<3861, 3690, 84>>,
            <<1793, 1129, 43>> >>
    ELSE << <<3021, 477, 61>>, <<2119, 320, 98>>, <<177, 833, 97>>,
            <<3273, 1579, 119>>, <<3479, 985, 55>>, <<3277, 2732, 114>> >>

\* The seeds random.randint(0, 9999) returns in the model.
Seeds == {2, 140}

RECURSIVE GenLoop(_, _, _)
GenLoop(field, n, stream) ==
    IF GenContinue(field, n)
    THEN GenLoop(GenBody(field, stream[(n % Len(stream)) + 1]), n + 1, stream)
    ELSE field

generate_obstacles(seed) == GenLoop(<<>>, 0, Stream(seed))

(***************************************************************************)
(* main: the event handlers and the frame update.                          *)
(***************************************************************************)
QuitKeys == {"K_ESCAPE", "K_a"}
ResetKeys == {"K_r"}
StopKeys == {"K_SPACE"}
UpKeys == {"K_UP", "K_z"}
DownKeys == {"K_DOWN", "K_s"}
LeftKeys == {"K_LEFT", "K_q"}
RightKeys == {"K_RIGHT", "K_d"}

\* The keys the model presses: those the source names, and K_w, which it
\* does not.
Keys ==
    QuitKeys \cup ResetKeys \cup StopKeys \cup UpKeys \cup DownKeys
        \cup LeftKeys \cup RightKeys \cup {"K_w"}

\* clock.tick(FPS): the measured frame times of the model (ms).
DTs == {16, 300, 500}

paused == FALSE

\* Lines 205-212 (to = TRUE) and 214-221 (to = FALSE).
MarkKeys(ks, k, to) ==
    [ks EXCEPT !.up = IF k \in UpKeys THEN to ELSE @,
               !.down = IF k \in DownKeys THEN to ELSE @,
               !.left = IF k \in LeftKeys THEN to ELSE @,
               !.right = IF k \in RightKeys THEN to ELSE @]

\* Lines 225-229 and 230-234.
AccelInput(ks) ==
    (IF ks.up THEN 1000 ELSE 0) - (IF ks.down THEN 1000 ELSE 0)
SteerInput(ks) ==
    (IF ks.right THEN 1000 ELSE 0) - (IF ks.left THEN 1000 ELSE 0)

\* int(FPS*0.2)
StopSteps == (FPS * 200) \div 1000

\* Lines 271-276: the banners drawn at (10, 40), in drawing order.
Banners(w, c) ==
    (IF w THEN <<"GOAL REACHED">> ELSE <<>>)
        \o (IF c THEN <<"COLLISION">> ELSE <<>>)

NoEvent == [type |-> "NONE", key |-> "none"]

\* main, lines 177-187, with the generator and a directly driven Car at rest.
InitRest ==
    /\ obstacles = generate_obstacles(2)
    /\ playing = TRUE
    /\ win = FALSE
    /\ collision = FALSE
    /\ key_state = [up |-> FALSE, down |-> FALSE, left |-> FALSE, right |-> FALSE]
    /\ dt = 0
    /\ accel = 0
    /\ steer = 0
    /\ event = NoEvent
    /\ pc = "tick"
    /\ frames = 0
    /\ nevents = 0
    /\ obs = <<>>
    /\ attempts = 0
    /\ gen_pc = "loop"
    /\ calls = 0

Init ==
    /\ car = Car_init(START_POS[1], START_POS[2], 0)
    /\ InitRest

\* Line 189-190: the loop test and the clock.
Tick ==
    /\ pc = "tick"
    /\ playing
    /\ frames < MaxFrames
    /\ \E d \in DTs : dt' = d
    /\ pc' = "events"
    /\ frames' = frames + 1
    /\ UNCHANGED <<car, obstacles, playing, win, collision, key_state, accel,
                   steer, event, nevents, obs, attempts, gen_pc, calls>>

\* Lines 189, 283-284: the loop ends.
Exit ==
    /\ pc = "tick"
    /\ ~playing
    /\ pc' = "done"
    /\ UNCHANGED <<car, obstacles, playing, win, collision, key_state, dt,
                   accel, steer, event, frames, nevents, obs, attempts, gen_pc,
                   calls>>

\* Lines 192-193.
QuitEvent ==
    /\ pc = "events"
    /\ nevents < MaxEvents
    /\ event' = [type |-> "QUIT", key |-> "none"]
    /\ nevents' = nevents + 1
    /\ playing' = FALSE
    /\ UNCHANGED <<car, obstacles, win, collision, key_state, dt, accel, steer,
                   pc, frames, obs, attempts, gen_pc, calls>>

\* Lines 194-212.
KeyDown(k) ==
    /\ pc = "events"
    /\ nevents < MaxEvents
    /\ event' = [type |-> "KEYDOWN", key |-> k]
    /\ nevents' = nevents + 1
    /\ playing' = IF k \in QuitKeys THEN FALSE ELSE playing
    /\ IF k \notin QuitKeys /\ k \in ResetKeys
       THEN /\ car' = Car_reset
            /\ \E seed \in Seeds : obstacles' = generate_obstacles(seed)
            /\ win' = FALSE
            /\ collision' = FALSE
       ELSE /\ car' = IF k \notin QuitKeys /\ k \in StopKeys
                      THEN [car EXCEPT !.v = downgrade_v_to_0(car.v, StopSteps)]
                      ELSE car
            /\ UNCHANGED <<obstacles, win, collision>>
    /\ key_state' = MarkKeys(key_state, k, TRUE)
    /\ UNCHANGED <<dt, accel, steer, pc, frames, obs, attempts, gen_pc, calls>>

\* Lines 213-221.
KeyUp(k) ==
    /\ pc = "events"
    /\ nevents < MaxEvents
    /\ event' = [type |-> "KEYUP", key |-> k]
    /\ nevents' = nevents + 1
    /\ key_state' = MarkKeys(key_state, k, FALSE)
    /\ UNCHANGED <<car, obstacles, playing, win, collision, dt, accel, steer,
                   pc, frames, obs, attempts, gen_pc, calls>>

\* The frame update of a loop that freezes on win only.
Update_freezeOnWinOnly ==
    /\ pc = "events"
    /\ pc' = "tick"
    /\ IF ~paused /\ ~win
       THEN /\ accel' = AccelInput(key_state)
            /\ steer' = SteerInput(key_state)
            /\ car' = Car_step(car, accel', steer', dt)
            /\ collision' = IF check_collision(car', obstacles) THEN TRUE ELSE collision
            /\ win' = IF reached_goal(car') THEN TRUE ELSE win
       ELSE UNCHANGED <<accel, steer, car, collision, win>>
    /\ UNCHANGED <<obstacles, playing, key_state, dt, event, frames, nevents,
                   obs, attempts, gen_pc, calls>>

\* The frame update of a loop that never freezes.
Update_neverFrozen ==
    /\ pc = "events"
    /\ pc' = "tick"
    /\ accel' = AccelInput(key_state)
    /\ steer' = SteerInput(key_state)
    /\ car' = Car_step(car, accel', steer', dt)
    /\ collision' = IF check_collision(car', obstacles) THEN TRUE ELSE collision
    /\ win' = IF reached_goal(car') THEN TRUE ELSE win
    /\ UNCHANGED <<obstacles, playing, key_state, dt, event, frames, nevents,
                   obs, attempts, gen_pc, calls>>

\* The frame update with the goal test in an else branch of the collision
\* test's, so that reaching the goal clears the collision.
Update_goalOverrides ==
    /\ pc = "events"
    /\ pc' = "tick"
    /\ IF ~paused /\ ~win /\ ~collision
       THEN /\ accel' = AccelInput(key_state)
            /\ steer' = SteerInput(key_state)
            /\ car' = Car_step(car, accel', steer', dt)
            /\ win' = IF reached_goal(car') THEN TRUE ELSE win
            /\ collision' = IF reached_goal(car') THEN FALSE
                            ELSE IF check_collision(car', obstacles) THEN TRUE
                            ELSE collision
       ELSE UNCHANGED <<accel, steer, car, collision, win>>
    /\ UNCHANGED <<obstacles, playing, key_state, dt, event, frames, nevents,
                   obs, attempts, gen_pc, calls>>

\* Lines 223-241, and the end of the loop body.
Update ==
    /\ pc = "events"
    /\ pc' = "tick"
    /\ IF ~paused /\ ~win /\ ~collision
       THEN /\ accel' = AccelInput(key_state)
            /\ steer' = SteerInput(key_state)
            /\ car' = Car_step(car, accel', steer', dt)
            /\ collision' = IF check_collision(car', obstacles) THEN TRUE ELSE collision
            /\ win' = IF reached_goal(car') THEN TRUE ELSE win
       ELSE UNCHANGED <<accel, steer, car, collision, win>>
    /\ UNCHANGED <<obstacles, playing, key_state, dt, event, frames, nevents,
                   obs, attempts, gen_pc, calls>>

Next ==
    \/ Tick
    \/ Exit
    \/ QuitEvent
    \/ \E k \in Keys : KeyDown(k)
    \/ \E k \in Keys : KeyUp(k)
    \/ Update

Spec == Init /\ [][Next]_vars

(***************************************************************************)
(* generate_obstacles run on its own, one loop iteration per step, on any  *)
(* sequence of draws.                                                      *)
(***************************************************************************)
GenIter ==
    /\ gen_pc = "loop"
    /\ GenContinue(obs, attempts)
    /\ \E d \in Draws : obs' = GenBody(obs, d)
    /\ attempts' = attempts + 1
    /\ UNCHANGED <<car, obstacles, playing, win, collision, key_state, dt,
                   accel, steer, event, pc, frames, nevents, gen_pc, calls>>

\* Line 352.
GenReturn ==
    /\ gen_pc = "loop"
    /\ ~GenContinue(obs, attempts)
    /\ gen_pc' = "returned"
    /\ UNCHANGED <<car, obstacles, playing, win, collision, key_state, dt,
                   accel, steer, event, pc, frames, nevents, obs, attempts,
                   calls>>

GenNext == GenIter \/ GenReturn

SpecGen == Init /\ [][GenNext]_vars

(***************************************************************************)
(* A Car driven directly: step with any inputs from any speed, the stop of *)
(* line 203 and reset.                                                     *)
(***************************************************************************)
StartSpeeds == {-3000, -1250, -20, 0, 20, 2500, 3000}
StepAccels == {-1000, -500, 0, 1000}
StepSteers == {0, 1000}
StepDTs == {1, 16, 500, 1249, 1250, 3000}

StepInit ==
    /\ \E v0 \in StartSpeeds : car = [Car_reset EXCEPT !.v = v0]
    /\ InitRest

StepCall ==
    /\ calls < MaxCalls
    /\ \E a \in StepAccels, s \in StepSteers, d \in StepDTs :
        /\ accel' = a
        /\ steer' = s
        /\ dt' = d
        /\ car' = Car_step(car, a, s, d)
    /\ calls' = calls + 1
    /\ UNCHANGED <<obstacles, playing, win, collision, key_state, event, pc,
                   frames, nevents, obs, attempts, gen_pc>>

StopCall ==
    /\ calls < MaxCalls
    /\ car' = [car EXCEPT !.v = downgrade_v_to_0(car.v, StopSteps)]
    /\ calls' = calls + 1
    /\ UNCHANGED <<obstacles, playing, win, collision, key_state, dt, accel,
                   steer, event, pc, frames, nevents, obs, attempts, gen_pc>>

ResetCall ==
    /\ calls < MaxCalls
    /\ car' = Car_reset
    /\ calls' = calls + 1
    /\ UNCHANGED <<obstacles, playing, win, collision, key_state, dt, accel,
                   steer, event, pc, frames, nevents, obs, attempts, gen_pc>>

StepNext == StepCall \/ StopCall \/ ResetCall

SpecStep == StepInit /\ [][StepNext]_vars

(***************************************************************************)
(* Properties.                                                             *)
(***************************************************************************)
\* A step that handles the event e.
Handles(e) == nevents' = nevents + 1 /\ event' = e
HandlesReset == Handles([type |-> "KEYDOWN", key |-> "K_r"])
HandlesStop == Handles([type |-> "KEYDOWN", key |-> "K_SPACE"])
\* A step that runs the frame update of lines 223-241.
UpdateStep == pc = "events" /\ pc' = "tick"
\* The pose and the trajectory history of the car are left as they are.
PoseKept ==
    /\ car'.x = car.x
    /\ car'.y = car.y
    /\ car'.theta = car.theta
    /\ car'.history = car.history
OnBoundary(c) == c.x = 0 \/ c.x = WORLD_SIZE \/ c.y = 0 \/ c.y = WORLD_SIZE
Sign(a) == IF a > 0 THEN 1 ELSE IF a < 0 THEN -1 ELSE 0
\* A step of the directly driven Car that calls Car.step.
StepCalled ==
    calls' = calls + 1 /\ Len(car'.history) = Len(car.history) + 1

\* C1: the win and collision flags are one-way.  A step other than the
\* handling of the reset key never clears a flag, changes no flag once one
\* of them is set, and sets a flag only in the frame update; the handling of
\* the reset key leaves both clear.
C1_FlagsOneWay ==
    [][IF HandlesReset
       THEN ~win' /\ ~collision'
       ELSE /\ (win \/ collision) => (win' = win /\ collision' = collision)
            /\ (win' # win \/ collision' # collision) =>
                   (UpdateStep /\ ~win /\ ~collision)]_vars

\* C1 witness: a frame and a key event have passed with the session
\* Collided, and it still is.
C1_Witness ==
    /\ collision
    /\ ~win
    /\ pc = "tick"
    /\ frames > Len(car.history)
    /\ nevents = MaxEvents
    /\ event.type = "KEYUP"

\* C2 as claimed: while win or collision is set, no step other than the
\* handling of the reset key changes the position, heading, speed or
\* trajectory history of the car.
C2_FrozenAll ==
    [][((win \/ collision) /\ ~HandlesReset) => (PoseKept /\ car'.v = car.v)]_vars

\* C2 as amended: while win or collision is set, no step other than the
\* handling of the reset key changes the position, heading or history, and
\* none other than the handling of the reset key and of the stop key changes
\* the speed; the stop key still replaces the speed v by
\* downgrade_v_to_0(v, int(FPS*0.2)).
C2_FrozenButStop ==
    [][((win \/ collision) /\ ~HandlesReset) =>
          /\ PoseKept
          /\ ~HandlesStop => car'.v = car.v
          /\ HandlesStop => car'.v = downgrade_v_to_0(car.v, 12)]_vars

\* C2 witness: the car stands collided on the left wall and the stop key,
\* handled after the collision, has brought its speed to zero.
C2_Witness ==
    /\ collision
    /\ car.x = 0
    /\ car.v = 0
    /\ event = [type |-> "KEYDOWN", key |-> "K_SPACE"]
    /\ pc = "tick"

\* C3 as claimed: a frame update after which check_collision and
\* reached_goal both hold sets win and leaves collision clear, and draws no
\* collision banner.
C3_WonNotCollided ==
    [][(UpdateStep /\ ~win /\ ~collision
            /\ check_collision(car', obstacles') /\ reached_goal(car')) =>
          /\ win'
          /\ ~collision'
          /\ \A i \in 1..Len(Banners(win', collision')) :
                 Banners(win', collision')[i] # "COLLISION"]_vars

\* C3 as amended: such a frame update sets both flags, win and collision,
\* and both banners are drawn, the collision banner last.
C3_WonAndCollided ==
    [][(UpdateStep /\ ~win /\ ~collision
            /\ check_collision(car', obstacles') /\ reached_goal(car')) =>
          /\ win'
          /\ collision'
          /\ Banners(win', collision') = <<"GOAL REACHED", "COLLISION">>]_vars

\* C3 witness: a frame has ended inside the goal and inside an obstacle's
\* collision circle.
C3_Witness ==
    /\ pc = "tick"
    /\ reached_goal(car)
    /\ HitsObstacle(car, obstacles)
    /\ win
    /\ collision

\* C4: the handling of the reset key leaves the car at x=0.05, y=1.0,
\* heading 0 with speed 0 and an empty history, the obstacle field one that
\* generate_obstacles returns, both flags clear, and the held keys as they
\* were.
C4_Reset ==
    [][HandlesReset =>
          /\ car'.x = 50 /\ car'.y = 1000 /\ car'.theta = 0
          /\ car'.v = 0
          /\ car'.history = <<>>
          /\ \E seed \in Seeds : obstacles' = generate_obstacles(seed)
          /\ ~win' /\ ~collision'
          /\ key_state' = key_state]_vars

\* C4 witness: the reset key has been handled with the down key held, after
\* the car had been driven, and the field is a new one.
C4_Witness ==
    /\ event = [type |-> "KEYDOWN", key |-> "K_r"]
    /\ key_state.down
    /\ frames >= 2
    /\ car.x = 50 /\ car.history = <<>>
    /\ obstacles # generate_obstacles(2)
    /\ ~win /\ ~collision

\* C5: once Car.step has been called, whatever the inputs and the speed
\* before, the speed lies in [-0.5*MAX_SPEED, MAX_SPEED], and the stop
\* keeps it there.
C5_SpeedInRange ==
    car.history # <<>> => (2 * car.v >= -MAX_SPEED /\ car.v <= MAX_SPEED)

\* C5 witness: a braking step has left the speed on the lower clamp.
C5_Witness ==
    /\ car.history # <<>>
    /\ accel = -1000
    /\ 2 * car.v = -MAX_SPEED

\* C6 as claimed: for every dt > 0, a step with zero accel input leaves a
\* speed of strictly smaller magnitude and of the same sign.
C6_DragStrict ==
    [][(StepCalled /\ accel' = 0 /\ dt' > 0) =>
          /\ Abs(car'.v) < Abs(car.v)
          /\ Sign(car'.v) = Sign(car.v)]_vars

\* C6 as amended: for 0 < dt < 1/DRAG, a step with zero accel input leaves
\* a speed of no larger magnitude and never of the opposite sign, and of
\* strictly smaller magnitude whenever the drag term v*DRAG*dt is not zero.
C6_DragBelowUnit ==
    [][(StepCalled /\ accel' = 0 /\ dt' > 0 /\ Mul(DRAG, dt') < 1000) =>
          /\ Abs(car'.v) <= Abs(car.v)
          /\ car'.v * car.v >= 0
          /\ DragTerm(car.v, dt') # 0 => Abs(car'.v) < Abs(car.v)]_vars

\* C6 witness: a drag-only step of 1.249 s has been made and the car still
\* moves.
C6_Witness ==
    /\ car.history # <<>>
    /\ calls = 1
    /\ accel = 0
    /\ dt = 1249
    /\ car.v > 0

\* C7: after every iteration of the generator's loop and at its return, two
\* distinct accepted obstacles are at least r1 + r2 + OBSTACLE_TOLERANCE
\* apart, and every accepted obstacle is at least
\* r + GOAL_RADIUS + OBSTACLE_TOLERANCE from the start and from the goal.
C7_Clearances ==
    /\ \A i, j \in 1..Len(obs) :
           i # j =>
               Dist2(obs[i][1], obs[i][2], obs[j][1], obs[j][2])
                   >= (obs[i][3] + obs[j][3] + 30) * (obs[i][3] + obs[j][3] + 30)
    /\ \A i \in 1..Len(obs) :
           /\ Dist2(obs[i][1], obs[i][2], 50, 1000)
                  >= (obs[i][3] + 60 + 30) * (obs[i][3] + 60 + 30)
           /\ Dist2(obs[i][1], obs[i][2], 1900, 1000)
                  >= (obs[i][3] + 60 + 30) * (obs[i][3] + 60 + 30)

\* C7 witness: the attempts have run out and the generator has returned
\* fewer than NUM_OBSTACLES obstacles, but several.
C7_Witness ==
    /\ gen_pc = "returned"
    /\ attempts = max_attempts
    /\ Len(obs) < NUM_OBSTACLES
    /\ Len(obs) >= 3

\* C8: a car on the boundary of the arena is in collision whatever its speed
\* and the obstacles, and the collision flag is set: the session is never
\* Playing with the car on the boundary.
C8_BoundaryCollides ==
    OnBoundary(car) => (check_collision(car, obstacles) /\ collision)

\* C8 witness: a frame has clamped the car onto the left wall.
C8_Witness ==
    /\ pc = "tick"
    /\ car.x = 0
    /\ car.v < 0
    /\ collision

\* C9: W, A, S and D act as the arrow keys do: pressing one sets the up,
\* left, down or right key state, releasing it clears that state, and neither
\* ends the session.
C9_WASD ==
    [][\A p \in {<<"K_w", "up">>, <<"K_a", "left">>, <<"K_s", "down">>,
                 <<"K_d", "right">>} :
          /\ Handles([type |-> "KEYDOWN", key |-> p[1]]) =>
                 (key_state'[p[2]] /\ playing' = playing)
          /\ Handles([type |-> "KEYUP", key |-> p[1]]) =>
                 (~key_state'[p[2]] /\ playing' = playing)]_vars

\* C10: with the car at the start pose, check_collision is false for every
\* field the generator returns, and the collision flag is clear.
C10_StartIsClear ==
    (car.x = 50 /\ car.y = 1000 /\ car.theta = 0) =>
        (~check_collision(car, obstacles) /\ ~collision)

====
